---- MODULE Spec2Model ----
(***************************************************************************)
(* Model of src/src/main.py: the task store kept in the SQLite table       *)
(* `tasks`, the /slack/commands "/task" sub-language and the /tasks REST   *)
(* entry point.  Every request runs on its own connection; the store       *)
(* statements of concurrent requests interleave at statement boundaries.   *)
(* Text is modelled as sequences of one-character strings so that split,   *)
(* lower and int do what the Python operations do.                         *)
(***************************************************************************)
EXTENDS Integers, Sequences, FiniteSets, TLC

\* ------------------------------------------------------------------ bounds
MaxTasks == 2
MaxClock == 1

\* Request threads (one sqlite3 connection each) that may be in flight.
Conns == {"c1", "c2"}
NoConn == "none"

\* SQL NULL / Python None.
NULL == "NULL"
Users == {"U1", "U2"}
ApiUser == "api_user"

\* ------------------------------------------------------------------- text
Digits == {"0", "1", "2", "3", "4", "5", "6", "7", "8", "9"}

DigitVal(ch) ==
  CASE ch = "0" -> 0 [] ch = "1" -> 1 [] ch = "2" -> 2 [] ch = "3" -> 3
    [] ch = "4" -> 4 [] ch = "5" -> 5 [] ch = "6" -> 6 [] ch = "7" -> 7
    [] ch = "8" -> 8 [] ch = "9" -> 9

LowerChar(ch) ==
  CASE ch = "C" -> "c" [] ch = "R" -> "r" [] ch = "E" -> "e" [] ch = "A" -> "a"
    [] ch = "T" -> "t" [] ch = "L" -> "l" [] ch = "I" -> "i" [] ch = "S" -> "s"
    [] ch = "N" -> "n" [] OTHER -> ch

\* str.lower()
Lower(s) == [i \in 1..Len(s) |-> LowerChar(s[i])]

\* Index of the first " " in s, 0 when there is none.
FirstSpace(s) ==
  IF \E i \in 1..Len(s) : s[i] = " "
    THEN CHOOSE i \in 1..Len(s) : s[i] = " " /\ \A j \in 1..(i - 1) : s[j] # " "
    ELSE 0

\* text.split(' ', 1): at most one split, at the first single space.
Split1(s) ==
  LET k == FirstSpace(s) IN
    IF k = 0 THEN <<s>>
    ELSE <<SubSeq(s, 1, k - 1), SubSeq(s, k + 1, Len(s))>>

\* needle in s, for two strings
Contains(needle, s) ==
  \E i \in 0..(Len(s) - Len(needle)) :
    SubSeq(s, i + 1, i + Len(needle)) = needle

RECURSIVE LStrip(_)
LStrip(s) == IF s # <<>> /\ Head(s) = " " THEN LStrip(Tail(s)) ELSE s

RECURSIVE RStrip(_)
RStrip(s) ==
  IF s # <<>> /\ s[Len(s)] = " " THEN RStrip(SubSeq(s, 1, Len(s) - 1)) ELSE s

Strip(s) == RStrip(LStrip(s))

RECURSIVE DigitsValue(_)
DigitsValue(s) ==
  IF s = <<>> THEN 0
  ELSE 10 * DigitsValue(SubSeq(s, 1, Len(s) - 1)) + DigitVal(s[Len(s)])

AllDigits(s) == s # <<>> /\ \A i \in 1..Len(s) : s[i] \in Digits

\* The part of an int() literal after its optional sign.
Unsigned(s) ==
  IF s # <<>> /\ Head(s) \in {"+", "-"} THEN Tail(s) ELSE s

\* int(s) raises ValueError unless s is, after stripping blanks, an optional
\* sign followed by decimal digits.
IntParses(s) == AllDigits(Unsigned(Strip(s)))

\* int(s) when it parses.
IntValue(s) ==
  LET t == Strip(s) IN
    IF t # <<>> /\ Head(t) = "-" THEN 0 - DigitsValue(Tail(t))
    ELSE DigitsValue(Unsigned(t))

\* ------------------------------------------------------------ the store
\* status TEXT DEFAULT 'pending'
DefaultStatus == "pending"
Completed == "completed"

\* created_at / updated_at TIMESTAMP DEFAULT CURRENT_TIMESTAMP
CurrentTimestamp(now) == now

\* A comparison under which two absent values are equal.
SqlEqPlain(a, b) == a = b

\* SQL `column = ?`: a comparison with NULL on either side is never true.
SqlEq(a, b) == a # NULL /\ b # NULL /\ a = b

MaxOf(S) == IF S = {} THEN 0 ELSE CHOOSE m \in S : \A x \in S : x <= m

\* A rowid assignment that hands out the current maximum again.
NextRowidNoIncrement(rows, sq) ==
  MaxOf({sq} \cup {rows[i].id : i \in 1..Len(rows)})

\* id INTEGER PRIMARY KEY AUTOINCREMENT: one more than the largest rowid the
\* table ever held (sqlite_sequence) or holds now.
NextRowid(rows, sq) ==
  MaxOf({sq} \cup {rows[i].id : i \in 1..Len(rows)}) + 1

\* The row stored by INSERT INTO tasks (title, description, user_id, channel_id).
NewRow(rows, sq, title, description, user_id, channel_id, now) ==
  [id |-> NextRowid(rows, sq), title |-> title, description |-> description,
   status |-> DefaultStatus, created_at |-> CurrentTimestamp(now),
   updated_at |-> CurrentTimestamp(now), user_id |-> user_id,
   channel_id |-> channel_id]

\* A WHERE clause that also requires the task to be pending.
CompleteWherePending(row, task_id, user_id) ==
  row.id = task_id /\ SqlEq(row.user_id, user_id) /\ row.status = DefaultStatus

\* A WHERE clause without the ownership condition.
CompleteWhereAnyCaller(row, task_id, user_id) == row.id = task_id

\* WHERE id = ? AND user_id = ?
CompleteWhere(row, task_id, user_id) ==
  row.id = task_id /\ SqlEq(row.user_id, user_id)

\* A SET clause that toggles the status.
CompleteSetToggle(row, now) ==
  [row EXCEPT !.status = IF row.status = Completed THEN DefaultStatus
                         ELSE Completed,
              !.updated_at = CurrentTimestamp(now)]

\* SET status = 'completed', updated_at = CURRENT_TIMESTAMP
CompleteSet(row, now) ==
  [row EXCEPT !.status = Completed, !.updated_at = CurrentTimestamp(now)]

\* The table after the UPDATE of complete_task.
UpdateComplete(rows, task_id, user_id, now) ==
  [i \in 1..Len(rows) |->
     IF CompleteWhere(rows[i], task_id, user_id)
       THEN CompleteSet(rows[i], now) ELSE rows[i]]

\* cursor.rowcount after that UPDATE.
RowCount(rows, task_id, user_id) ==
  Cardinality({i \in 1..Len(rows) : CompleteWhere(rows[i], task_id, user_id)})

\* ORDER BY created_at DESC: every arrangement of the selected rows with
\* created_at non-increasing; SQL leaves the order of equal keys open.
OrderByCreatedDesc(S) ==
  LET n == Cardinality(S) IN
    {q \in [1..n -> S] :
       /\ \A i, j \in 1..n : i # j => q[i] # q[j]
       /\ \A i, j \in 1..n : i < j => q[i].created_at >= q[j].created_at}

RowSet(rows) == {rows[i] : i \in 1..Len(rows)}

\* A listing without its WHERE clause.
UserWhereAll(row, user_id) == TRUE

\* WHERE user_id = ?
UserWhere(row, user_id) == SqlEq(row.user_id, user_id)

\* get_user_tasks: the possible results of the SELECT.
GetUserTasks(rows, user_id) ==
  OrderByCreatedDesc({r \in RowSet(rows) : UserWhere(r, user_id)})

\* get_all_tasks: the possible results of the SELECT.
GetAllTasks(rows) == OrderByCreatedDesc(RowSet(rows))

\* ------------------------------------------------------------ inputs
CREATE_X == <<"C", "R", "E", "A", "T", "E", " ", "x">>
create_ == <<"c", "r", "e", "a", "t", "e">>
create_sp == <<"c", "r", "e", "a", "t", "e", " ">>
create_x == <<"c", "r", "e", "a", "t", "e", " ", "x">>
list_ == <<"l", "i", "s", "t">>
complete_ == <<"c", "o", "m", "p", "l", "e", "t", "e">>
complete_sp == <<"c", "o", "m", "p", "l", "e", "t", "e", " ">>
complete_1 == <<"c", "o", "m", "p", "l", "e", "t", "e", " ", "1">>
complete_2 == <<"c", "o", "m", "p", "l", "e", "t", "e", " ", "2">>
complete_0 == <<"c", "o", "m", "p", "l", "e", "t", "e", " ", "0">>
complete_neg == <<"c", "o", "m", "p", "l", "e", "t", "e", " ", "-", "1">>
complete_abc == <<"c", "o", "m", "p", "l", "e", "t", "e", " ", "a", "b", "c">>
bogus_ == <<"b", "o", "g", "u", "s">>

\* The `text` form field of the /task requests tried.
Texts ==
  {<<>>, create_, create_sp, create_x, CREATE_X, list_, complete_, complete_sp,
   complete_1, complete_2, complete_0, complete_neg, complete_abc, bogus_}

\* The `user_id` form field: a user, or absent (None).
SlackUsers == Users \cup {NULL}

\* JSON bodies of POST /tasks: the title key missing, null or a string; the
\* user_id key missing or null.
Missing == "MISSING"
NullText == <<NULL>>
PostTitles == {<<>>, <<" ", "x", " ">>, NullText}
PostBodies ==
  [has_title : {TRUE}, title : PostTitles, user_id : {Missing, NULL}]
    \cup [has_title : {FALSE}, title : {<<>>}, user_id : {Missing}]

\* ------------------------------------------------------------- state
VARIABLES
  api_key,         \* openai.api_key is set (OPENAI_API_KEY)
  signing_secret,  \* SLACK_SIGNING_SECRET is set
  schema,    \* the table `tasks` exists in tasks.db
  tasks,     \* the committed rows of the table, in rowid order
  seq,       \* sqlite_sequence: the largest rowid ever assigned
  lock,      \* the connection holding the database write lock, or NoConn
  clock,     \* CURRENT_TIMESTAMP, in seconds
  pc,        \* per request thread: the statement it is about to run
  frame,     \* per request thread: its locals and cursor
  txn,       \* per connection: the uncommitted table of its transaction
  response,  \* the response being returned to a caller, or NoResponse
  returned   \* the ids create_task has returned so far

vars ==
  <<api_key, signing_secret, schema, tasks, seq, lock, clock, pc, frame, txn, response, returned>>

\* A request without the two Slack headers: request.headers.get(name, '').
NoHeaders == [timestamp |-> "", signature |-> <<>>]

IdleFrame ==
  [ep |-> "none", text |-> <<>>, title |-> <<>>, description |-> <<>>,
   user_id |-> NULL, channel_id |-> NULL, task_id |-> 0, lastrowid |-> 0, rowcount |-> 0, affected |-> 0,
   floor |-> {}, bot_id |-> NULL, headers |-> NoHeaders]

NoTxn == [tasks |-> <<>>, seq |-> 0]

NoResponse ==
  [ep |-> "none", text |-> <<>>, user_id |-> NULL, code |-> 0,
   kind |-> "none", response_type |-> "none", task_id |-> 0,
   tasks |-> <<>>, floor |-> {}, reply |-> <<>>, gateway |-> "none",
   bot_id |-> NULL]

\* No request is being served and tasks.db holds no task.
InitStore ==
  /\ tasks = <<>>
  /\ seq = 0
  /\ lock = NoConn
  /\ clock = 0
  /\ pc = [c \in Conns |-> "idle"]
  /\ frame = [c \in Conns |-> IdleFrame]
  /\ txn = [c \in Conns |-> NoTxn]
  /\ response = NoResponse
  /\ returned = {}

\* The program started as __main__: init_db ran before the first request.
\* Neither OPENAI_API_KEY nor SLACK_SIGNING_SECRET is set in the environment.
Init ==
  /\ api_key = FALSE
  /\ signing_secret = FALSE
  /\ schema = TRUE
  /\ InitStore

\* ---------------------------------------------------------- responses
\* A response body that carries no text of chat_with_openai.
NoReply == <<>>

Response(ep, text, user_id, code, kind, rtype, task_id, rows, floor) ==
  [ep |-> ep, text |-> text, user_id |-> user_id, code |-> code,
   kind |-> kind, response_type |-> rtype, task_id |-> task_id,
   tasks |-> rows, floor |-> floor, reply |-> NoReply, gateway |-> "none",
   bot_id |-> NULL]

\* The `except Exception` of the entry point: slack_commands or tasks.
ErrorResponse(ep, text, user_id) ==
  Response(ep, text, user_id, 500, "error",
           IF ep = "slack" THEN "ephemeral" ELSE "none", 0, <<>>, {})

\* A usage message posted to the whole channel.
UsageResponseInChannel(text, user_id) ==
  Response("slack", text, user_id, 200, "usage", "in_channel", 0, <<>>, {})

\* The usage message of /task.
UsageResponse(text, user_id) ==
  Response("slack", text, user_id, 200, "usage", "ephemeral", 0, <<>>, {})

ParseErrorResponse(text, user_id) ==
  Response("slack", text, user_id, 200, "parse_error", "ephemeral", 0, <<>>, {})

\* Responses are observed one at a time: a step is taken once the previous
\* response has gone out.
Ready == response = NoResponse

\* A handler that answers without leaving a statement pending.
Reply(r) ==
  /\ response' = r
  /\ UNCHANGED <<api_key, signing_secret, schema, tasks, seq, lock, clock, pc, frame, txn, returned>>

\* ------------------------------------------------------- store statements
\* A store whose writers do not exclude each other.
CanWriteUnlocked(c) == TRUE

\* SQLite grants the write lock of the database file to one connection.
CanWrite(c) == lock = NoConn

\* A statement raises sqlite3.OperationalError when the table is missing, or
\* when the write lock stays with another connection for the busy timeout.
ReadRaises == ~schema
WriteRaises(c) == ~schema \/ ~CanWrite(c)

\* Calls of create_task that have not inserted their row yet.
Inserting == {c \in Conns : pc[c] = "create_insert"}

\* create_task is entered: conn = sqlite3.connect('tasks.db').
CreateTask(c, ep, text, title, user_id, channel_id, description) ==
  /\ Len(tasks) + Cardinality(Inserting) < MaxTasks
  /\ frame' = [frame EXCEPT ![c] =
                 [IdleFrame EXCEPT !.ep = ep, !.text = text, !.title = title,
                                   !.description = description,
                                   !.user_id = user_id,
                                   !.channel_id = channel_id,
                                   !.floor = returned]]
  /\ pc' = [pc EXCEPT ![c] = "create_insert"]
  /\ UNCHANGED <<api_key, signing_secret, schema, tasks, seq, lock, clock, txn, response, returned>>

\* The INSERT of create_task: the row is written inside the connection's
\* transaction and cursor.lastrowid is set; or the statement raises and the
\* entry point answers.
CreateInsert(c) ==
  /\ pc[c] = "create_insert"
  /\ Ready
  /\ \/ /\ schema
        /\ CanWrite(c)
        /\ frame[c].title # NullText
        /\ LET row == NewRow(tasks, seq, frame[c].title, frame[c].description,
                             frame[c].user_id, frame[c].channel_id, clock) IN
             /\ txn' = [txn EXCEPT ![c] = [tasks |-> Append(tasks, row),
                                           seq |-> row.id]]
             /\ frame' = [frame EXCEPT ![c].lastrowid = row.id]
        /\ lock' = c
        /\ pc' = [pc EXCEPT ![c] = "create_lastrowid"]
        /\ UNCHANGED <<api_key, signing_secret, schema, tasks, seq, clock, response, returned>>
     \/ /\ WriteRaises(c) \/ frame[c].title = NullText
        /\ response' = ErrorResponse(frame[c].ep, frame[c].text,
                                     frame[c].user_id)
        /\ pc' = [pc EXCEPT ![c] = "idle"]
        /\ frame' = [frame EXCEPT ![c] = IdleFrame]
        /\ UNCHANGED <<api_key, signing_secret, schema, tasks, seq, lock, clock, txn, returned>>

\* task_id = cursor.lastrowid
CreateLastRowId(c) ==
  /\ pc[c] = "create_lastrowid"
  /\ Ready
  /\ frame' = [frame EXCEPT ![c].task_id = frame[c].lastrowid]
  /\ pc' = [pc EXCEPT ![c] = "create_commit"]
  /\ UNCHANGED <<api_key, signing_secret, schema, tasks, seq, lock, clock, txn, response, returned>>

\* conn.commit(); conn.close(); return task_id, and the caller's response.
CreateCommit(c) ==
  /\ pc[c] = "create_commit"
  /\ Ready
  /\ tasks' = txn[c].tasks
  /\ seq' = txn[c].seq
  /\ lock' = NoConn
  /\ txn' = [txn EXCEPT ![c] = NoTxn]
  /\ returned' = returned \cup {frame[c].task_id}
  /\ response' = Response(frame[c].ep, frame[c].text, frame[c].user_id,
                      IF frame[c].ep = "slack" THEN 200 ELSE 201, "created",
                      IF frame[c].ep = "slack" THEN "in_channel" ELSE "none",
                      frame[c].task_id, <<>>, frame[c].floor)
  /\ pc' = [pc EXCEPT ![c] = "idle"]
  /\ frame' = [frame EXCEPT ![c] = IdleFrame]
  /\ UNCHANGED <<api_key, signing_secret, schema, clock>>

\* complete_task up to its UPDATE, inside the connection's transaction; or
\* the statement raises.
CompleteTask(c, text, task_id, user_id) ==
  \/ /\ schema
     /\ CanWrite(c)
     /\ txn' = [txn EXCEPT ![c] =
                  [tasks |-> UpdateComplete(tasks, task_id, user_id, clock),
                   seq |-> seq]]
     /\ frame' = [frame EXCEPT ![c] =
                    [IdleFrame EXCEPT !.ep = "slack", !.text = text,
                                      !.user_id = user_id,
                                      !.task_id = task_id,
                                      !.rowcount =
                                        RowCount(tasks, task_id, user_id)]]
     /\ lock' = c
     /\ pc' = [pc EXCEPT ![c] = "complete_rowcount"]
     /\ UNCHANGED <<api_key, signing_secret, schema, tasks, seq, clock, response, returned>>
  \/ /\ WriteRaises(c)
     /\ Reply(ErrorResponse("slack", text, user_id))

\* affected = cursor.rowcount
CompleteRowCount(c) ==
  /\ pc[c] = "complete_rowcount"
  /\ Ready
  /\ frame' = [frame EXCEPT ![c].affected = frame[c].rowcount]
  /\ pc' = [pc EXCEPT ![c] = "complete_commit"]
  /\ UNCHANGED <<api_key, signing_secret, schema, tasks, seq, lock, clock, txn, response, returned>>

\* conn.commit(); conn.close(); return affected > 0, and the /task reply.
CompleteCommit(c) ==
  /\ pc[c] = "complete_commit"
  /\ Ready
  /\ tasks' = txn[c].tasks
  /\ seq' = txn[c].seq
  /\ lock' = NoConn
  /\ txn' = [txn EXCEPT ![c] = NoTxn]
  /\ response' = IF frame[c].affected > 0
               THEN Response("slack", frame[c].text, frame[c].user_id, 200,
                             "complete_ok", "in_channel", frame[c].task_id,
                             <<>>, {})
               ELSE Response("slack", frame[c].text, frame[c].user_id, 200,
                             "complete_fail", "ephemeral", frame[c].task_id,
                             <<>>, {})
  /\ pc' = [pc EXCEPT ![c] = "idle"]
  /\ frame' = [frame EXCEPT ![c] = IdleFrame]
  /\ UNCHANGED <<api_key, signing_secret, schema, clock, returned>>

\* A line that shows every task as pending.
TaskLinePending(task) ==
  <<"#", task.id, ": ", task.title, " (", DefaultStatus, ")">>

\* f"#{task[0]}: {task[1]} ({task[3]})"
TaskLine(task) == <<"#", task.id, ": ", task.title, " (", task.status, ")">>

\* The text of the /task list reply, line by line; a fixed line is one token.
ListText(rows) ==
  << <<"Your tasks:">> >>
    \o (IF rows = <<>> THEN << <<"No tasks found.">> >>
        ELSE [i \in 1..Len(rows) |-> TaskLine(rows[i])])

\* A failed commit that leaves the rows of its transaction in the table.
CommitRaisesPartial(c) ==
  /\ pc[c] \in {"create_commit", "complete_commit"}
  /\ Ready
  /\ tasks' = txn[c].tasks
  /\ seq' = txn[c].seq
  /\ lock' = NoConn
  /\ txn' = [txn EXCEPT ![c] = NoTxn]
  /\ response' = ErrorResponse(frame[c].ep, frame[c].text, frame[c].user_id)
  /\ pc' = [pc EXCEPT ![c] = "idle"]
  /\ frame' = [frame EXCEPT ![c] = IdleFrame]
  /\ UNCHANGED <<api_key, signing_secret, schema, clock, returned>>

\* conn.commit() raises (the file cannot be written): the exception leaves
\* create_task or complete_task before conn.close(), the connection is
\* dropped with its transaction open, which SQLite rolls back, and the entry
\* point answers.
CommitRaises(c) ==
  /\ pc[c] \in {"create_commit", "complete_commit"}
  /\ Ready
  /\ lock' = NoConn
  /\ txn' = [txn EXCEPT ![c] = NoTxn]
  /\ response' = ErrorResponse(frame[c].ep, frame[c].text, frame[c].user_id)
  /\ pc' = [pc EXCEPT ![c] = "idle"]
  /\ frame' = [frame EXCEPT ![c] = IdleFrame]
  /\ UNCHANGED <<api_key, signing_secret, schema, tasks, seq, clock,
                 returned>>

\* A listing: one SELECT on the committed table, or the statement raises.
ListTasks(ep, kind, text, user_id, results) ==
  \/ /\ ~ReadRaises
     /\ \E rows \in results :
          Reply([Response(ep, text, user_id, 200, kind,
                          IF ep = "slack" THEN "ephemeral" ELSE "none", 0,
                          rows, {})
                   EXCEPT !.reply = IF ep = "slack" THEN ListText(rows)
                                    ELSE NoReply])
  \/ /\ ReadRaises
     /\ Reply(ErrorResponse(ep, text, user_id))


\* ---------------------------------------------------------------- gateway
\* The fixed texts chat_with_openai returns, each one token of text.
NotConfigured ==
  <<"OpenAI API key not configured. Please set OPENAI_API_KEY environment variable.">>
AuthFailed == <<"Authentication failed. Please check your OpenAI API key.">>
RateLimited == <<"Rate limit exceeded. Please try again later.">>
Sorry == <<"Sorry, I encountered an error processing your request.">>

\* response.choices[0].message.content of a completion, before .strip().
Contents == {<<"o", "k">>, <<" ", "o", "k", " ">>}

\* How openai.ChatCompletion.create ends when it ends: a completion, or one
\* of the exceptions chat_with_openai tells apart.
Outcomes == {"ok", "auth", "rate", "other"}

\* What chat_with_openai returns for an outcome of the external call.
GatewayText(outcome, content) ==
  CASE outcome = "not_configured" -> NotConfigured
    [] outcome = "ok" -> Strip(content)
    [] outcome = "auth" -> AuthFailed
    [] outcome = "rate" -> RateLimited
    [] OTHER -> Sorry

\* The response of the entry point that called chat_with_openai: /ai posts
\* the text to the channel, /chat returns it, /slack/events only logs that
\* there was one. bot_id is the field of the event slack_events has read,
\* NULL for the other callers.
GatewayResponse(ep, text, user_id, bot_id, outcome, content) ==
  CASE ep = "ai" ->
         [Response("slack", text, user_id, 200, "ai_reply", "in_channel", 0,
                   <<>>, {})
            EXCEPT !.reply = GatewayText(outcome, content),
                   !.gateway = outcome]
    [] ep = "chat" ->
         [Response("chat", text, user_id, 200, "chat_reply", "none", 0,
                   <<>>, {})
            EXCEPT !.reply = GatewayText(outcome, content),
                   !.gateway = outcome]
    [] OTHER ->
         [Response("event", text, user_id, 200, "event_ok", "none", 0,
                   <<>>, {})
            EXCEPT !.gateway = outcome, !.bot_id = bot_id]

\* A chat_with_openai that sends the request without looking at the API key.
ChatWithOpenaiNoKeyTest(c, ep, text, user_id, bot_id) ==
  /\ frame' = [frame EXCEPT ![c] =
                 [IdleFrame EXCEPT !.ep = ep, !.text = text,
                                   !.user_id = user_id, !.bot_id = bot_id]]
  /\ pc' = [pc EXCEPT ![c] = "openai_create"]
  /\ UNCHANGED <<api_key, signing_secret, schema, tasks, seq, lock, clock,
                 txn, response, returned>>

\* chat_with_openai is entered: without an API key it returns at once, with
\* one the request goes out to the external service.
ChatWithOpenai(c, ep, text, user_id, bot_id) ==
  IF ~api_key
    THEN Reply(GatewayResponse(ep, text, user_id, bot_id, "not_configured",
                               <<>>))
    ELSE /\ frame' = [frame EXCEPT ![c] =
                        [IdleFrame EXCEPT !.ep = ep, !.text = text,
                                          !.user_id = user_id,
                                          !.bot_id = bot_id]]
         /\ pc' = [pc EXCEPT ![c] = "openai_create"]
         /\ UNCHANGED <<api_key, signing_secret, schema, tasks, seq, lock,
                        clock, txn, response, returned>>

\* openai.ChatCompletion.create returns or raises; chat_with_openai turns
\* either into text and the entry point answers.
OpenaiReturn(c) ==
  /\ pc[c] = "openai_create"
  /\ Ready
  /\ \E outcome \in Outcomes, content \in Contents :
       /\ outcome # "ok" => content = <<"o", "k">>
       /\ response' = GatewayResponse(frame[c].ep, frame[c].text,
                                      frame[c].user_id, frame[c].bot_id,
                                      outcome, content)
  /\ pc' = [pc EXCEPT ![c] = "idle"]
  /\ frame' = [frame EXCEPT ![c] = IdleFrame]
  /\ UNCHANGED <<api_key, signing_secret, schema, tasks, seq, lock, clock,
                 txn, returned>>

\* ----------------------------------------------------------- entry points
\* POST /slack/commands with command = '/task'.
SlackTask(c, text, user_id) ==
  /\ pc[c] = "idle"
  /\ Ready
  /\ IF text = <<>> THEN Reply(UsageResponse(text, user_id))
     ELSE
       LET parts == Split1(text)
           action == Lower(parts[1])
       IN
         IF action = create_ /\ Len(parts) > 1
           THEN CreateTask(c, "slack", text, parts[2], user_id, "C1", <<>>)
         ELSE IF action = list_
           THEN ListTasks("slack", "list", text, user_id,
                          GetUserTasks(tasks, user_id))
         ELSE IF action = complete_ /\ Len(parts) > 1
           THEN IF IntParses(parts[2])
                  THEN CompleteTask(c, text, IntValue(parts[2]), user_id)
                  ELSE Reply(ParseErrorResponse(text, user_id))
         ELSE Reply(UsageResponse(text, user_id))

\* POST /slack/commands with command = '/ai'.
SlackAi(c, text, user_id) ==
  /\ pc[c] = "idle"
  /\ Ready
  /\ IF text = <<>>
       THEN Reply(Response("slack", text, user_id, 200, "ai_prompt",
                           "ephemeral", 0, <<>>, {}))
       ELSE ChatWithOpenai(c, "ai", text, user_id, NULL)

\* POST /slack/commands: the command of the form picks the handler.
SlackCommands(c, command, text, user_id) ==
  IF command = "/ai" THEN SlackAi(c, text, user_id)
  ELSE IF command = "/task" THEN SlackTask(c, text, user_id)
  ELSE /\ pc[c] = "idle"
       /\ Ready
       /\ Reply(Response("slack", text, user_id, 200, "unknown_command",
                         "ephemeral", 0, <<>>, {}))

\* 'ai assistant', the phrase slack_events looks for.
ai_assistant == <<"a", "i", " ", "a", "s", "s", "i", "s", "t", "a", "n", "t">>

\* The texts of message events; NullText is "text": null.
EventTexts ==
  {<<>>, <<"h", "i">>, ai_assistant, <<"x", " ">> \o ai_assistant,
   <<"A", "I", " ", "A", "s", "s", "i", "s", "t", "a", "n", "t", "!">>,
   <<"a", "i", " ", " ", "a", "s", "s", "i", "s", "t", "a", "n", "t">>,
   NullText}

\* The JSON bodies posted to /slack/events: none, the URL handshake, or an
\* event with its type, its bot_id (absent, empty or a bot) and its text.
EventBodies ==
  [type : {"none", "url_verification"}, event : {<<>>}]
    \cup [type : {"event_callback"},
          event : [type : {"message", "app_mention"},
                   bot_id : {NULL, "", "B1"}, text : EventTexts]]

\* `not v` of Python for a value that is None or a string.
Falsy(v) == v = NULL \/ v = ""

\* Every message with the phrase calls the assistant, also a bot's.
TriggeredAlsoBots(event) ==
  /\ event.type = "message"
  /\ Contains(ai_assistant, Lower(event.text))

\* The two tests of slack_events before it calls chat_with_openai.
Triggered(event) ==
  /\ event.type = "message"
  /\ Falsy(event.bot_id)
  /\ Contains(ai_assistant, Lower(event.text))

\* The acknowledgment {'status': 'ok'} of an event that made no call.
EventOk(event) ==
  [Response("event", event.text, "U1", 200,
            IF event.type = "message" THEN "event_ok" ELSE "event_other",
            "none", 0, <<>>, {})
     EXCEPT !.bot_id = event.bot_id]

\* POST /slack/events.
SlackEvents(c, data) ==
  /\ pc[c] = "idle"
  /\ Ready
  /\ IF data.type = "none"
       THEN Reply(Response("event", <<>>, NULL, 400, "no_data", "none", 0,
                           <<>>, {}))
     ELSE IF data.type = "url_verification"
       THEN Reply(Response("event", <<>>, NULL, 200, "challenge", "none", 0,
                           <<>>, {}))
     ELSE IF data.event.type = "message" /\ Falsy(data.event.bot_id)
               /\ data.event.text = NullText
       THEN Reply([ErrorResponse("event", data.event.text, "U1")
                     EXCEPT !.bot_id = data.event.bot_id])
     ELSE IF Triggered(data.event)
       THEN ChatWithOpenai(c, "event", data.event.text, "U1",
                           data.event.bot_id)
     ELSE Reply(EventOk(data.event))

\* The JSON bodies posted to /chat: with or without the key 'message'.
ChatBodies ==
  [has_message : {TRUE}, message : {<<>>, <<"h", "i">>},
   user_id : {Missing, "U1"}]
    \cup [has_message : {FALSE}, message : {<<>>}, user_id : {Missing}]

\* POST /chat.
Chat(c, data) ==
  /\ pc[c] = "idle"
  /\ Ready
  /\ IF ~data.has_message
       THEN Reply(Response("chat", <<>>, NULL, 400, "message_required",
                           "none", 0, <<>>, {}))
       ELSE ChatWithOpenai(c, "chat", data.message,
                           IF data.user_id = Missing THEN ApiUser
                           ELSE data.user_id,
                           NULL)

\* ------------------------------------------------------ request signing
\* The value of SLACK_SIGNING_SECRET when it is set, and a key that is not it.
Secret == "S"
OtherKey == "X"

\* hmac.new(key, basestring, sha256).hexdigest(): equal digests come from
\* equal keys and equal messages only.
Hmac(key, basestring) == <<"hmac", key, basestring>>

\* 'v0=' + the digest of f"v0:{timestamp}:{request_data}" under a key.
Sign(key, timestamp, request_data) ==
  <<"v0=", Hmac(key, <<"v0", ":", timestamp, ":", request_data>>)>>

\* The raw body of the request that is being verified, and another body.
ThisBody == "this"
OtherBody == "other"

\* The X-Slack-Request-Timestamp and X-Slack-Signature a request can carry:
\* none, or a signature made with the secret or another key, for this or
\* another timestamp, over this or another body.
Headers ==
  [timestamp : {"", "t1"},
   signature : {<<>>, Sign(Secret, "t1", ThisBody), Sign(OtherKey, "t1", ThisBody),
                Sign(Secret, "t0", ThisBody), Sign(Secret, "t1", OtherBody)}]

\* A verification that accepts every signature.
VerifyAnySignature(request_data, timestamp, signature) == TRUE

\* verify_slack_signature
VerifySlackSignature(request_data, timestamp, signature) ==
  IF ~signing_secret THEN TRUE
  ELSE Sign(Secret, timestamp, request_data) = signature

\* A request reaches the server on thread c with its headers.
Receive(c, headers) ==
  /\ pc[c] = "idle"
  /\ Ready
  /\ frame' = [frame EXCEPT ![c].headers = headers]
  /\ UNCHANGED <<api_key, signing_secret, schema, tasks, seq, lock, clock, pc,
                 txn, response, returned>>

\* @require_slack_verification around the handler f of entry point ep.
RequireSlackVerification(c, ep, f) ==
  IF ~signing_secret THEN f
  ELSE IF frame[c].headers.timestamp = "" \/ frame[c].headers.signature = <<>>
    THEN /\ pc[c] = "idle"
         /\ Ready
         /\ Reply(Response(ep, <<>>, NULL, 401, "unauthorized", "none", 0,
                           <<>>, {}))
  ELSE IF ~VerifySlackSignature(ThisBody, frame[c].headers.timestamp,
                                frame[c].headers.signature)
    THEN /\ pc[c] = "idle"
         /\ Ready
         /\ Reply(Response(ep, <<>>, NULL, 401, "unauthorized", "none", 0,
                           <<>>, {}))
  ELSE f

\* POST /slack/commands and POST /slack/events as they are routed.
SlackCommandsRoute(c, command, text, user_id) ==
  RequireSlackVerification(c, "slack", SlackCommands(c, command, text, user_id))

SlackEventsRoute(c, data) ==
  RequireSlackVerification(c, "event", SlackEvents(c, data))

\* POST /tasks with a JSON body.
PostTasks(c, data) ==
  /\ pc[c] = "idle"
  /\ Ready
  /\ IF ~data.has_title
       THEN Reply(Response("post", <<>>, NULL, 400, "title_required", "none",
                           0, <<>>, {}))
       ELSE CreateTask(c, "post", data.title,
                       data.title,
                       IF data.user_id = Missing THEN ApiUser ELSE data.user_id,
                       NULL, <<>>)

\* GET /tasks, with or without the user_id query parameter.
GetTasks(c, user_id) ==
  /\ pc[c] = "idle"
  /\ Ready
  /\ IF user_id # NULL
       THEN ListTasks("get", "list", <<>>, user_id,
                      GetUserTasks(tasks, user_id))
       ELSE ListTasks("get", "list_all", <<>>, user_id, GetAllTasks(tasks))

\* A second passes.
Tick ==
  /\ clock < MaxClock
  /\ Ready
  /\ clock' = clock + 1
  /\ UNCHANGED <<api_key, signing_secret, schema, tasks, seq, lock, pc, frame, txn, response, returned>>

\* The response goes out to the caller.
SendResponse ==
  /\ response # NoResponse
  /\ response' = NoResponse
  /\ UNCHANGED <<api_key, signing_secret, schema, tasks, seq, lock, clock, pc, frame, txn, returned>>

\* The life cycle of tasks: concurrent /task create and complete requests.
\* Tasks are created by a user and by a request without user_id; every caller
\* tries to complete them.
Next ==
  \/ \E c \in Conns, user_id \in {"U1", NULL} :
       SlackTask(c, create_x, user_id)
  \/ \E c \in Conns, text \in {complete_1, complete_2}, user_id \in SlackUsers :
       SlackTask(c, text, user_id)
  \/ \E c \in Conns : CreateInsert(c)
  \/ \E c \in Conns : CreateLastRowId(c)
  \/ \E c \in Conns : CreateCommit(c)
  \/ \E c \in Conns : CompleteRowCount(c)
  \/ \E c \in Conns : CompleteCommit(c)
  \/ SendResponse
  \/ Tick

Spec == Init /\ [][Next]_vars

\* Listings: concurrent /task create and list requests and GET /tasks.
NextList ==
  \/ \E c \in Conns, text \in {create_x, list_}, user_id \in SlackUsers :
       SlackTask(c, text, user_id)
  \/ \E c \in Conns, user_id \in SlackUsers : GetTasks(c, user_id)
  \/ \E c \in Conns : CreateInsert(c)
  \/ \E c \in Conns : CreateLastRowId(c)
  \/ \E c \in Conns : CreateCommit(c)
  \/ SendResponse
  \/ Tick

SpecList == Init /\ [][NextList]_vars

\* The command router: every /task text, one request at a time.
NextRouter ==
  \/ \E text \in Texts, user_id \in SlackUsers : SlackTask("c1", text, user_id)
  \/ CreateInsert("c1")
  \/ CreateLastRowId("c1")
  \/ CreateCommit("c1")
  \/ CompleteRowCount("c1")
  \/ CompleteCommit("c1")
  \/ SendResponse

SpecRouter == Init /\ [][NextRouter]_vars

\* The /tasks REST entry point.
NextApi ==
  \/ \E c \in Conns, data \in PostBodies : PostTasks(c, data)
  \/ \E c \in Conns, user_id \in SlackUsers : GetTasks(c, user_id)
  \/ \E c \in Conns : CreateInsert(c)
  \/ \E c \in Conns : CreateLastRowId(c)
  \/ \E c \in Conns : CreateCommit(c)
  \/ SendResponse
  \/ Tick

SpecApi == Init /\ [][NextApi]_vars

\* The program started as __main__, with or without OPENAI_API_KEY.
InitGateway ==
  /\ api_key \in BOOLEAN
  /\ signing_secret = FALSE
  /\ schema = TRUE
  /\ InitStore

\* The texts sent with /ai.
AiTexts == {<<>>, <<"h", "i">>}

\* The slash-command dispatcher: /ai, every /task text and a command the
\* program does not know, one request at a time.
NextCommands ==
  \/ \E text \in Texts, user_id \in SlackUsers :
       SlackCommands("c1", "/task", text, user_id)
  \/ \E text \in AiTexts, user_id \in SlackUsers :
       SlackCommands("c1", "/ai", text, user_id)
  \/ \E user_id \in SlackUsers : SlackCommands("c1", "/bogus", list_, user_id)
  \/ CreateInsert("c1")
  \/ CreateLastRowId("c1")
  \/ CreateCommit("c1")
  \/ CompleteRowCount("c1")
  \/ CompleteCommit("c1")
  \/ OpenaiReturn("c1")
  \/ SendResponse

SpecCommands == InitGateway /\ [][NextCommands]_vars

\* Events of the platform, served concurrently.
NextEvents ==
  \/ \E c \in Conns, data \in EventBodies : SlackEvents(c, data)
  \/ \E c \in Conns : OpenaiReturn(c)
  \/ SendResponse

SpecEvents == InitGateway /\ [][NextEvents]_vars

\* The callers that show the assistant's text: /ai and /chat, concurrently.
NextChat ==
  \/ \E c \in Conns, text \in AiTexts, user_id \in SlackUsers :
       SlackAi(c, text, user_id)
  \/ \E c \in Conns, data \in ChatBodies : Chat(c, data)
  \/ \E c \in Conns : OpenaiReturn(c)
  \/ SendResponse

SpecChat == InitGateway /\ [][NextChat]_vars

\* The same callers under the scheduling the program has: a response that is
\* ready does go out. chat_with_openai passes no timeout to
\* openai.ChatCompletion.create, so nothing in the program makes a call that
\* is under way end: OpenaiReturn is a step of the external service and
\* carries no fairness.
SpecChatFair == InitGateway /\ [][NextChat]_vars /\ WF_vars(SendResponse)

\* A task from creation to completion as its owner sees it: concurrent
\* /task create, list and complete requests of two users.
NextFlow ==
  \/ \E c \in Conns, text \in {create_x, list_, complete_1},
        user_id \in Users :
       SlackTask(c, text, user_id)
  \/ \E c \in Conns : CreateInsert(c)
  \/ \E c \in Conns : CreateLastRowId(c)
  \/ \E c \in Conns : CreateCommit(c)
  \/ \E c \in Conns : CompleteRowCount(c)
  \/ \E c \in Conns : CompleteCommit(c)
  \/ SendResponse

SpecFlow == Init /\ [][NextFlow]_vars

\* The program started as __main__, or it was imported by a WSGI server,
\* which does not run init_db, and tasks.db has no table yet.
InitAnySchema ==
  /\ api_key = FALSE
  /\ signing_secret = FALSE
  /\ schema \in BOOLEAN
  /\ InitStore

\* The store under failure: concurrent /task and /tasks requests whose
\* statements can find no table, a locked database or a commit that fails.
NextStoreFailure ==
  \/ \E c \in Conns, text \in {create_x, list_, complete_1} :
       SlackTask(c, text, "U1")
  \/ \E c \in Conns,
        data \in {d \in PostBodies : d.title # <<>> /\ d.user_id # NULL} :
       PostTasks(c, data)
  \/ \E c \in Conns, user_id \in {"U1", NULL} : GetTasks(c, user_id)
  \/ \E c \in Conns : CreateInsert(c)
  \/ \E c \in Conns : CreateLastRowId(c)
  \/ \E c \in Conns : CreateCommit(c)
  \/ \E c \in Conns : CompleteRowCount(c)
  \/ \E c \in Conns : CompleteCommit(c)
  \/ \E c \in Conns : CommitRaises(c)
  \/ SendResponse

SpecStoreFailure == InitAnySchema /\ [][NextStoreFailure]_vars

\* The program started as __main__ with any environment.
InitWebhook ==
  /\ api_key \in BOOLEAN
  /\ signing_secret \in BOOLEAN
  /\ schema = TRUE
  /\ InitStore

\* The events that matter to the signature check: one that calls the
\* assistant and one that does not.
WebhookEvents ==
  {d \in EventBodies :
     /\ d.type = "event_callback"
     /\ d.event.type = "message"
     /\ d.event.bot_id = NULL
     /\ d.event.text \in {ai_assistant, <<"h", "i">>}}

\* The two Slack routes behind the signature check, one request at a time.
NextWebhook ==
  \/ \E headers \in Headers : Receive("c1", headers)
  \/ \E text \in {create_x, list_, complete_1} :
       SlackCommandsRoute("c1", "/task", text, "U1")
  \/ SlackCommandsRoute("c1", "/ai", <<"h", "i">>, "U1")
  \/ \E data \in WebhookEvents : SlackEventsRoute("c1", data)
  \/ CreateInsert("c1")
  \/ CreateLastRowId("c1")
  \/ CreateCommit("c1")
  \/ CompleteRowCount("c1")
  \/ CompleteCommit("c1")
  \/ OpenaiReturn("c1")
  \/ SendResponse

SpecWebhook == InitWebhook /\ [][NextWebhook]_vars

\* ------------------------------------------------------------ properties
\* A task with this id is stored and has an owner, and the owner is `caller`.
OwnedBy(rows, task_id, caller) ==
  \E i \in 1..Len(rows) :
    /\ rows[i].id = task_id
    /\ rows[i].user_id # NULL
    /\ rows[i].user_id = caller

CompleteKinds == {"complete_ok", "complete_fail"}

\* C1: complete(task_id, owner_id) returns true if and only if a task with
\* that id exists and its stored owner equals the caller, whatever the
\* task's status; a call by anyone else returns false.  Stated of the value
\* complete_task is about to return and of the reply that carries it.
C1_CompleteTrueIffOwned ==
  /\ \A c \in Conns :
       pc[c] = "complete_commit" =>
         ((frame[c].affected > 0)
            <=> OwnedBy(tasks, frame[c].task_id, frame[c].user_id))
  /\ response.kind \in CompleteKinds =>
       ((response.kind = "complete_ok")
          <=> OwnedBy(tasks, response.task_id, response.user_id))

\* The owner completes a task that is already completed and gets true again.
C1_Witness ==
  \E c \in Conns :
    /\ pc[c] = "complete_commit"
    /\ frame[c].affected > 0
    /\ \E i \in 1..Len(tasks) :
         tasks[i].id = frame[c].task_id /\ tasks[i].status = Completed

\* C2: a complete call that returns false leaves every task record as it
\* was, and a stored task is only ever changed by a complete call of its
\* owner.
C2_FalseCompleteChangesNothing ==
  [][/\ (response = NoResponse /\ response'.kind = "complete_fail")
          => tasks' = tasks
     /\ \A i \in 1..Len(tasks) :
          /\ Len(tasks') >= i
          /\ tasks'[i] # tasks[i] =>
               \E c \in Conns :
                 /\ pc[c] = "complete_commit"
                 /\ pc'[c] = "idle"
                 /\ tasks[i].id = frame[c].task_id
                 /\ tasks[i].user_id # NULL
                 /\ tasks[i].user_id = frame[c].user_id]_vars

\* U2 tried to complete a pending task of U1 and was told no.
C2_Witness ==
  /\ response.kind = "complete_fail"
  /\ response.user_id = "U2"
  /\ \E i \in 1..Len(tasks) :
       /\ tasks[i].id = response.task_id
       /\ tasks[i].user_id = "U1"
       /\ tasks[i].status = DefaultStatus

\* C3: every task starts pending, its status is always pending or completed,
\* and a completed task never becomes pending again.
C3_StatusOnlyForward ==
  [][/\ \A i \in 1..Len(tasks) :
          /\ Len(tasks') >= i
          /\ tasks[i].status = Completed => tasks'[i].status = Completed
     /\ \A i \in 1..Len(tasks') :
          tasks'[i].status \in {DefaultStatus, Completed}
     /\ \A i \in (Len(tasks) + 1)..Len(tasks') :
          tasks'[i].status = DefaultStatus]_vars

\* A completed task is completed once more by its owner, next to a task
\* created after it that is still pending.
C3_Witness ==
  /\ \E c \in Conns :
       /\ pc[c] = "complete_commit"
       /\ frame[c].affected > 0
       /\ \E i \in 1..Len(tasks) :
            /\ tasks[i].id = frame[c].task_id
            /\ tasks[i].status = Completed
            /\ tasks[i].updated_at < clock
  /\ \E j \in 1..Len(tasks) : tasks[j].status = DefaultStatus

\* C4: a create call returns a positive id greater than every id returned
\* before the call began; no id is held by two tasks, and the next id is
\* always beyond every id handed out.
C4_IdsStrictlyIncrease ==
  /\ response.kind = "created" =>
       /\ response.task_id >= 1
       /\ \A n \in response.floor : response.task_id > n
  /\ \A i, j \in 1..Len(tasks) : i # j => tasks[i].id # tasks[j].id
  /\ \A i \in 1..Len(tasks) : tasks[i].id >= 1 /\ tasks[i].id <= seq
  /\ \A n \in returned : n <= seq

\* A create returns after an earlier create had returned.
C4_Witness ==
  /\ response.kind = "created"
  /\ response.floor # {}
  /\ Len(tasks) >= 2

\* The title a create request asked for.
RequestedTitle(r) == IF r.ep = "slack" THEN Split1(r.text)[2] ELSE r.text

\* C5: with create calls running concurrently, a call never returns an id
\* that another call returned, and the id it returns is the id of the row it
\* inserted (its title, its owner).
C5_ConcurrentCreateDistinctIds ==
  [][\A c \in Conns :
       (pc[c] = "create_commit" /\ pc'[c] = "idle") =>
         /\ frame[c].task_id \notin returned
         /\ response'.kind = "created"
         /\ response'.task_id = frame[c].task_id
         /\ Cardinality({i \in 1..Len(tasks') :
                           tasks'[i].id = frame[c].task_id}) = 1
         /\ \A i \in 1..Len(tasks') :
              tasks'[i].id = frame[c].task_id =>
                /\ tasks'[i].title = RequestedTitle(response')
                /\ tasks'[i].user_id = frame[c].user_id]_vars

\* Two create calls overlapped (the second began before the first returned)
\* and both have returned.
C5_Witness ==
  /\ response.kind = "created"
  /\ \E n \in returned : n # response.task_id /\ n \notin response.floor

\* The rows a listing returned.
Listed(r) == {r.tasks[i] : i \in 1..Len(r.tasks)}

\* The stored tasks that have an owner, and the owner is `owner`.
TasksOf(rows, owner) ==
  {row \in RowSet(rows) : row.user_id # NULL /\ row.user_id = owner}

\* C6: list_by_owner(owner) returns only tasks whose stored owner is that
\* owner, returns every one of them once, and answers a caller who owns
\* nothing with an empty sequence; a listing is never answered with an error
\* (checked under SpecList).
C6_ListExactlyOwnTasks ==
  /\ response.kind = "list" =>
       /\ Listed(response) = TasksOf(tasks, response.user_id)
       /\ Len(response.tasks) = Cardinality(Listed(response))
       /\ response.code = 200
  /\ response.kind = "error" =>
       response.ep # "get" /\ Lower(Split1(response.text)[1]) # list_

\* U1 lists and gets tasks while the store also holds a task of someone else.
C6_Witness ==
  /\ response.kind = "list"
  /\ response.user_id = "U1"
  /\ Len(response.tasks) >= 1
  /\ \E row \in RowSet(tasks) : row.user_id # "U1"

\* U2, who owns nothing, lists a store that holds tasks and gets <<>>.
C6_WitnessEmpty ==
  /\ response.kind = "list"
  /\ response.user_id = "U2"
  /\ response.tasks = <<>>
  /\ tasks # <<>>

\* C7: create with an empty title is refused with a 4xx answer (unless the
\* store itself fails first) and inserts nothing, so no stored task has an
\* empty title (checked under SpecApi).
C7_EmptyTitleRejected ==
  /\ \A i \in 1..Len(tasks) : tasks[i].title # <<>>
  /\ (response.ep = "post" /\ response.text = <<>>) =>
       response.code \in 400..499 \/ response.kind = "error"

\* C8: a listing puts the task created later before the task created
\* earlier, also when both were created in the same second (ids grow with
\* creation; checked under SpecList).
C8_MostRecentFirst ==
  response.kind \in {"list", "list_all"} =>
    \A i, j \in 1..Len(response.tasks) :
      i < j => response.tasks[i].id > response.tasks[j].id

\* The /task text is a complete command.
IsComplete(text) == text # <<>> /\ Lower(Split1(text)[1]) = complete_

\* What follows the action of a /task text; empty when nothing does.
Rest(text) == IF Len(Split1(text)) > 1 THEN Split1(text)[2] ELSE <<>>

\* Decimal digits denoting a number above zero.
IsPositiveInt(s) == AllDigits(s) /\ DigitsValue(s) > 0

\* C9: a /task complete command whose remainder is not a positive integer
\* (missing, non-numeric, zero, negative) is answered with the ParseError
\* reply and never reaches complete_task (checked under SpecRouter).
C9_CompleteNeedsPositiveId ==
  /\ \A c \in Conns :
       pc[c] \in {"complete_rowcount", "complete_commit"} =>
         IsPositiveInt(Rest(frame[c].text))
  /\ (response.ep = "slack" /\ IsComplete(response.text)
        /\ ~IsPositiveInt(Rest(response.text))) =>
       response.kind = "parse_error"

\* C10: a /task create command inserts a task only when its remainder is
\* non-empty, and the stored title is the remainder (checked under
\* SpecRouter, where every task comes from /task create).
C10_CreateNeedsTitle ==
  /\ \A c \in Conns :
       pc[c] \in {"create_insert", "create_lastrowid", "create_commit"} =>
         frame[c].title = Rest(frame[c].text)
  /\ (response.kind = "created" /\ response.ep = "slack") =>
       Rest(response.text) # <<>>
  /\ \A i \in 1..Len(tasks) : tasks[i].title # <<>>

\* C11: every reply to a slash command carries a visibility fixed by its
\* outcome: a created task, a completed task and the answer to a non-empty
\* /ai text go to the channel; a listing, a failed complete, the usage
\* message, the id parse error and the prompt for an empty /ai text go to
\* the caller only.
C11_ReplyVisibility ==
  response.ep = "slack" =>
    /\ response.response_type \in {"in_channel", "ephemeral"}
    /\ response.kind \in {"created", "complete_ok", "ai_reply"}
         => response.response_type = "in_channel"
    /\ response.kind \in {"list", "complete_fail", "usage", "parse_error",
                          "ai_prompt"}
         => response.response_type = "ephemeral"
    /\ response.kind = "ai_reply" <=> response.gateway # "none"
    /\ response.kind = "usage"
         => \/ response.text = <<>>
            \/ Len(Split1(response.text)) = 1
            \/ Lower(Split1(response.text)[1]) \notin {create_, complete_}

\* The answer of the assistant goes to the channel, after a task was created
\* and completed.
C11_Witness ==
  /\ response.kind = "ai_reply"
  /\ response.gateway = "ok"
  /\ response.response_type = "in_channel"
  /\ \E i \in 1..Len(tasks) : tasks[i].status = Completed

\* C12: a message event makes the program call the assistant exactly when
\* the event carries no bot identity and its text contains 'ai assistant' in
\* any letter case; an event of a bot never causes a call; and the
\* acknowledgment of an event never contains the assistant's text.
C12_EventTrigger ==
  response.ep = "event" =>
    /\ response.reply = NoReply
    /\ response.kind = "event_ok" =>
         (response.gateway # "none"
            <=> /\ response.bot_id \in {NULL, ""}
                /\ \E i \in 1..Len(response.text) :
                     /\ i + 11 <= Len(response.text)
                     /\ Lower(SubSeq(response.text, i, i + 11)) = ai_assistant)
    /\ response.bot_id = "B1" => response.gateway = "none"
    /\ response.gateway # "none" => response.kind = "event_ok"

\* The event "x AI ..." of no bot was answered after the assistant was called.
C12_Witness ==
  /\ response.ep = "event"
  /\ response.kind = "event_ok"
  /\ response.gateway = "ok"
  /\ response.text[1] = "A"
  /\ response.bot_id = NULL

\* C13: whatever the outcome of the call to the assistant (no API key,
\* authentication failure, rate limit, any other failure, a completion),
\* chat_with_openai returns a text and does not raise, so /ai and /chat
\* answer 200 with that text; without an API key the text is the fixed
\* not-configured message and no request goes out to the external service.
C13_GatewayAlwaysText ==
  /\ response.kind \in {"ai_reply", "chat_reply"} =>
       /\ response.code = 200
       /\ response.reply # <<>>
       /\ response.gateway \in Outcomes \cup {"not_configured"}
       /\ response.gateway = "not_configured" <=> ~api_key
       /\ response.gateway = "not_configured" => response.reply = NotConfigured
       /\ response.gateway = "auth" => response.reply = AuthFailed
       /\ response.gateway = "rate" => response.reply = RateLimited
       /\ response.gateway = "other" => response.reply = Sorry
       /\ response.gateway = "ok" => response.reply = <<"o", "k">>
  /\ response.ep = "chat" => response.kind \in {"chat_reply", "message_required"}
  /\ response.ep = "slack" => response.kind \in {"ai_reply", "ai_prompt"}
  /\ ~api_key => \A c \in Conns : pc[c] # "openai_create"

\* /chat answers with the catch-all text after the external call failed.
C13_Witness ==
  /\ response.kind = "chat_reply"
  /\ response.gateway = "other"
  /\ response.reply = Sorry
  /\ response.code = 200

\* /ai answers with the not-configured text.
C13_WitnessNoKey ==
  /\ response.kind = "ai_reply"
  /\ response.gateway = "not_configured"
  /\ response.reply = NotConfigured

\* C14: every request that has called the assistant eventually gets its
\* response, also when the external service never answers: the call is
\* bounded by a timeout, so no request stays inside it for ever.
C14_GatewayCallReturns ==
  \A c \in Conns : (pc[c] = "openai_create") ~> (pc[c] = "idle")

\* The /task list reply r has this line.
HasLine(r, line) == \E i \in 1..Len(r.reply) : r.reply[i] = line

\* The rows of a user's tasks with the given status.
WithStatus(rows, owner, status) ==
  {i \in 1..Len(rows) : rows[i].user_id = owner /\ rows[i].status = status}

\* C15: once U1's "create <title>" has returned id n, every "list" of U1
\* contains the line "#n: <title> (pending)" until U1 issues "complete n";
\* that complete is answered with success; and every "list" of U1 afterwards
\* shows "#n: <title> (completed)". Commands of other users change none of
\* this: the status of U1's task changes only in the step that answers U1's
\* own complete.
C15_CreateListCompleteList ==
  [][
      /\ response'.kind = "created" /\ response'.user_id = "U1"
          => \E i \in 1..Len(tasks') :
               /\ tasks'[i].id = response'.task_id
               /\ tasks'[i].title = Rest(response'.text)
               /\ tasks'[i].user_id = "U1"
               /\ tasks'[i].status = DefaultStatus
      /\ response'.kind = "list" /\ response'.ep = "slack"
           /\ response'.user_id = "U1"
          => /\ \A i \in WithStatus(tasks', "U1", DefaultStatus) :
                  HasLine(response', <<"#", tasks'[i].id, ": ", tasks'[i].title,
                                      " (", "pending", ")">>)
             /\ \A i \in WithStatus(tasks', "U1", Completed) :
                  HasLine(response', <<"#", tasks'[i].id, ": ", tasks'[i].title,
                                      " (", "completed", ")">>)
      /\ \A i \in WithStatus(tasks, "U1", DefaultStatus) :
           /\ tasks'[i].status = Completed
                <=> /\ response'.kind \in CompleteKinds
                    /\ response'.user_id = "U1"
                    /\ response'.task_id = tasks[i].id
           /\ tasks'[i].status = Completed => response'.kind = "complete_ok"
      /\ \A i \in WithStatus(tasks, "U1", Completed) :
           tasks'[i].status = Completed
     ]_vars

\* U1 lists a completed task of theirs while U2 owns a task too.
C15_Witness ==
  /\ response.kind = "list"
  /\ response.ep = "slack"
  /\ response.user_id = "U1"
  /\ HasLine(response, <<"#", 1, ": ", <<"x">>, " (", "completed", ")">>)
  /\ \E i \in 1..Len(tasks) : tasks[i].user_id = "U2"

\* C16: a store operation that fails while /slack/commands or /tasks is being
\* served is caught by the entry point: the caller gets status 500 with the
\* fixed message and nothing of the failure, and the table and its id
\* sequence are what they were before; the failed call leaves no open
\* transaction and no lock behind.
C16_StoreFailureCaught ==
  [][response'.kind = "error" =>
       /\ response'.code = 500
       /\ response'.reply = NoReply
       /\ response'.tasks = <<>>
       /\ response'.task_id = 0
       /\ tasks' = tasks
       /\ seq' = seq
       /\ \A c \in Conns :
            pc[c] # pc'[c] =>
              /\ pc'[c] = "idle"
              /\ txn'[c] = NoTxn
              /\ lock' # c
     ]_vars

\* A create was answered 500 with the table intact and nobody else at work:
\* its commit failed after the row had been inserted.
C16_Witness ==
  /\ response.kind = "error"
  /\ response.code = 500
  /\ response.text = create_x
  /\ schema
  /\ \A c \in Conns : pc[c] = "idle"
  /\ lock = NoConn

\* C17: the store creates its schema when it is absent: a store operation
\* that finds no table succeeds, whether init_db ran before it or not.
C17_SchemaCreatedOnFirstUse ==
  ~schema => response.kind # "error"

\* The headers do not carry a signature of this request under the secret.
BadHeaders(h) ==
  \/ h.timestamp = ""
  \/ h.signature = <<>>
  \/ h.signature # <<"v0=", <<"hmac", "S",
                               <<"v0", ":", h.timestamp, ":", "this">>>>>>

\* Thread c takes up the request it has received.
Dispatched(c) ==
  /\ pc[c] = "idle"
  /\ response = NoResponse
  /\ pc'[c] # "idle" \/ response' # NoResponse

\* C18: with a signing secret configured, a slash-command or event request
\* whose timestamp or signature header is missing, or whose signature does
\* not match, is answered Unauthorized and changes nothing in the store and
\* calls no assistant; a request with a matching signature, and with no
\* secret configured every request, reaches the handler.
C18_SignatureGate ==
  [][Dispatched("c1") =>
       /\ signing_secret /\ BadHeaders(frame["c1"].headers)
            => /\ response'.kind = "unauthorized"
               /\ response'.code = 401
               /\ UNCHANGED <<tasks, seq, lock, pc, frame, txn, returned>>
       /\ response'.kind = "unauthorized"
            => signing_secret /\ BadHeaders(frame["c1"].headers)
     ]_vars

\* A request signed with another key is turned away after a task was
\* created by a request with a good signature.
C18_Witness ==
  /\ signing_secret
  /\ response.kind = "unauthorized"
  /\ frame["c1"].headers = [timestamp |-> "t1",
                            signature |-> Sign(OtherKey, "t1", ThisBody)]
  /\ Len(tasks) > 0

\* Without a secret a request without headers is served.
C18_WitnessNoSecret ==
  /\ ~signing_secret
  /\ frame["c1"].headers = NoHeaders
  /\ response.kind = "created"

\* C19: complete calls on one task id that run concurrently with each other
\* and with creates give each the result of a run one at a time, in the
\* order of their commits: the call that commits returns true exactly when
\* the table it commits over holds the task under the caller, the commit
\* changes that same table in the status of that task only, and a task's
\* status turns completed in a step exactly when the call committing in that
\* step returns true for it.
C19_ConcurrentCompleteSerial ==
  [][/\ \A c \in Conns :
          pc[c] = "complete_commit" /\ pc'[c] = "idle" =>
            /\ response'.kind \in CompleteKinds
            /\ response'.kind = "complete_ok"
                 <=> OwnedBy(tasks, frame[c].task_id, frame[c].user_id)
            /\ Len(tasks') = Len(tasks)
            /\ \A i \in 1..Len(tasks) :
                 /\ tasks'[i].id = tasks[i].id
                 /\ tasks'[i].user_id = tasks[i].user_id
                 /\ tasks'[i].title = tasks[i].title
                 /\ tasks'[i].status =
                      IF tasks[i].id = frame[c].task_id
                           /\ response'.kind = "complete_ok"
                        THEN Completed
                        ELSE tasks[i].status
     /\ \A i \in 1..Len(tasks) :
          Len(tasks') >= i /\ tasks'[i].status # tasks[i].status =>
            /\ response'.kind = "complete_ok"
            /\ response'.task_id = tasks[i].id
            /\ tasks'[i].status = Completed
    ]_vars

\* While the owner's complete of task 1 holds the table, a complete of the
\* same task by another caller is turned away by the lock, and a create of
\* the owner is answered next to it.
C19_Witness ==
  /\ response.kind = "error"
  /\ IsComplete(response.text)
  /\ response.user_id = "U2"
  /\ \E c \in Conns :
       /\ pc[c] = "complete_commit"
       /\ frame[c].user_id = "U1"
       /\ frame[c].affected > 0
       /\ frame[c].task_id = IntValue(Rest(response.text))
  /\ Len(tasks) = MaxTasks

\* The owner's complete is answered in a later second than the create of the
\* task, while a create on the other connection waits for the table.
C19_WitnessCreate ==
  /\ response.kind = "complete_ok"
  /\ response.user_id = "U1"
  /\ \E i \in 1..Len(tasks) :
       tasks[i].id = response.task_id /\ tasks[i].updated_at > tasks[i].created_at
  /\ \E c \in Conns : pc[c] = "create_insert"

\* The stored task with this id has no owner.
Ownerless(rows, task_id) ==
  \E i \in 1..Len(rows) : rows[i].id = task_id /\ rows[i].user_id = NULL

\* C20: a task stored without an owner can never be completed: a complete
\* call on it returns false for every caller, a caller without user id
\* included, and the task stays pending.
C20_OwnerlessNeverCompleted ==
  /\ \A i \in 1..Len(tasks) :
       tasks[i].user_id = NULL => tasks[i].status = DefaultStatus
  /\ \A c \in Conns :
       /\ pc[c] \in {"complete_rowcount", "complete_commit"}
            /\ Ownerless(tasks, frame[c].task_id)
            => /\ frame[c].rowcount = 0
               /\ txn[c].tasks = tasks
       /\ pc[c] = "complete_commit" /\ Ownerless(tasks, frame[c].task_id)
            => frame[c].affected = 0
  /\ response.kind \in CompleteKinds /\ Ownerless(tasks, response.task_id)
       => response.kind = "complete_fail"

\* A caller without user id was refused the completion of a task without
\* owner.
C20_Witness ==
  /\ response.kind = "complete_fail"
  /\ response.user_id = NULL
  /\ Ownerless(tasks, response.task_id)

====
